---------------------------- MODULE Spec2Model ----------------------------
(* A state-machine model of src/main.py: BookHighlightExtractor (connect,   *)
(* get_book_title, get_highlights, _get_book_info, export_to_markdown) and  *)
(* main().  The two SQLite stores are state chosen at Init; one run of      *)
(* main() is a sequence of steps driven by pc; a second run of the program  *)
(* against the same stores follows the first.                               *)
(*                                                                          *)
(* Representation.  A nullable value (SQL NULL / Python None) is a sequence *)
(* of length 0 or 1: None == << >>, Some(x) == <<x>>.  A title or filter is *)
(* a sequence of one-character strings; other text is a sequence of string  *)
(* pieces (concatenation is \o).  Timestamps are whole seconds.             *)
EXTENDS Integers, Sequences, FiniteSets, TLC

(***************************************************************************)
(* Bounds of the model                                                     *)
(***************************************************************************)
MaxRows == 2

MaxBooks == 2

MaxTicks == 1

(***************************************************************************)
(* Program constants                                                       *)
(***************************************************************************)
MacEpochOffset == 978307200

\* The wall clock at the start of the exploration (seconds since 1970): a
\* moment after every stored timestamp of the modelled stores.
NowBase == MacEpochOffset + 800000000

None == << >>

Some(x) == <<x>>

(***************************************************************************)
(* Python truthiness, per type of the tested value                         *)
(***************************************************************************)
TruthyNum(o) == o # None /\ o[1] # 0

TruthyStr(o) == o # None /\ o[1] # << >>

TruthyId(o) == o # None /\ o[1] # ""

(***************************************************************************)
(* str.lower() and the substring test of line 171                          *)
(***************************************************************************)
LowerChar(c) ==
    CASE c = "D" -> "d"
      [] c = "U" -> "u"
      [] c = "F" -> "f"
      [] c = "O" -> "o"
      [] OTHER -> c

Lower(s) == [i \in 1..Len(s) |-> LowerChar(s[i])]

\* Python's `needle in hay` on strings
IsSubstring(needle, hay) ==
    \E i \in 1..(Len(hay) + 1) :
        /\ i + Len(needle) - 1 <= Len(hay)
        /\ SubSeq(hay, i, i + Len(needle) - 1) = needle


(***************************************************************************)
(* The annotation store: table ZAEANNOTATION                                *)
(***************************************************************************)
BookIdVals == {None, Some("b1")}

StoredTimes == {None, Some(0), Some(1)}

AnnRow(t, b) ==
    [text |-> Some("quote"), created_at |-> t, note |-> None, book_id |-> b,
     representative_text |-> None, annotation_type |-> None,
     is_underline |-> 0, deleted |-> 0]

\* rows that exercise the WHERE clause and the note/context normalisation
AnnDeletedRow == [AnnRow(Some(1), None) EXCEPT !.deleted = 1]

AnnNoTextRow == [AnnRow(Some(1), None) EXCEPT !.text = None]

AnnRichRow ==
    [text |-> Some("quote"), created_at |-> Some(-1), note |-> Some("memo"),
     book_id |-> Some("b1"), representative_text |-> Some("around"),
     annotation_type |-> Some(2), is_underline |-> 1, deleted |-> 0]

AnnRowSet ==
    {AnnRow(t, b) : t \in StoredTimes, b \in BookIdVals} \cup {AnnRichRow}

SeqsUpTo(S, n) == UNION {[1..k -> S] : k \in 0..n}

(***************************************************************************)
(* The library store: what each candidate query of get_book_title yields   *)
(* for book id "b1", and the rows of ZBKLIBRARYASSET read by _get_book_info *)
(***************************************************************************)
TitleDune == <<"D", "u">>

TitleFoundation == <<"F", "o">>

\* a candidate query fails structurally, matches no row, or fetches one row
\* whose ZTITLE may be NULL or empty
CandRes ==
    {[kind |-> "operr", title |-> None], [kind |-> "norow", title |-> None]}
        \cup {[kind |-> "row", title |-> t] :
                 t \in {None, Some(<< >>), Some(TitleDune)}}

BookRow(t, lo) ==
    [book_title |-> t, author |-> None, progress |-> None, last_opened |-> lo,
     description |-> None, genre |-> None]

BookRichRow ==
    [book_title |-> Some(TitleDune), author |-> Some("Herbert"),
     progress |-> Some(4565), last_opened |-> Some(-1),
     description |-> None, genre |-> Some("SF")]

BookRowSet ==
    {BookRow(Some(TitleDune), None), BookRow(Some(TitleDune), Some(1)),
     BookRow(Some(TitleFoundation), Some(0)), BookRow(None, Some(1)),
     BookRichRow}

\* what the user types at the prompt, after strip() (line 262)
Filters == {<< >>, <<"d", "U">>, <<"o">>}

(***************************************************************************)
(* ORDER BY <key> DESC as SQLite sorts it: NULL is smaller than any value, *)
(* so NULLs come last; rows with equal keys keep their rowid order.        *)
(***************************************************************************)
KeyGreater(a, b) == a # None /\ (b = None \/ a[1] > b[1])

RECURSIVE InsertDesc(_, _, _)
InsertDesc(x, kx, sorted) ==
    IF sorted = << >> THEN <<x>>
    ELSE IF KeyGreater(kx, Head(sorted).key) THEN <<x>> \o sorted
    ELSE <<Head(sorted)>> \o InsertDesc(x, kx, Tail(sorted))

RECURSIVE SortKeyedDesc(_)
SortKeyedDesc(keyed) ==
    IF keyed = << >> THEN << >>
    ELSE LET front == SubSeq(keyed, 1, Len(keyed) - 1)
             last == keyed[Len(keyed)]
         IN InsertDesc(last, last.key, SortKeyedDesc(front))


(***************************************************************************)
(* get_book_title (lines 83-108)                                           *)
(***************************************************************************)
\* the candidate queries, in the order of the list `queries`
Queries ==
    <<"ZBKLIBRARYASSET.ZASSETID", "ZBKLIBRARYASSET.ZBKASSETID",
      "ZBKLIBRARY.ZASSETID">>

\* a resolver without the inner try: a structural failure ends the loop
CandidateStepNoContinue(res, fails) ==
    IF fails \/ res.kind = "operr" THEN "abort"
    ELSE IF res.kind = "norow" THEN "continue"
    ELSE "return"

\* What one pass of the loop body does with a candidate: `res` is what the
\* store yields for the query, `fails` says that a database error other than
\* OperationalError strikes this execute/fetchone.
\*   "continue": except sqlite3.OperationalError (102-103), or `if result`
\*               false because fetchone() gave no row (99-100)
\*   "return":   return result[0] (101)
\*   "abort":    any other exception leaves the loop for line 105
CandidateStep(res, fails) ==
    IF fails THEN "abort"
    ELSE IF res.kind = "operr" THEN "continue"
    ELSE IF res.kind = "norow" THEN "continue"
    ELSE "return"

\* the loop of lines 96-103 from candidate i on; failAt is the candidate at
\* which a non-structural database error strikes (0: none)
RECURSIVE TryQueries(_, _, _)
TryQueries(q, i, failAt) ==
    IF i > Len(Queries)
    THEN [title |-> None, tried |-> Len(Queries), caught |-> FALSE]
    ELSE LET step == CandidateStep(q[i], failAt = i)
         IN CASE step = "return" ->
                    [title |-> q[i].title, tried |-> i, caught |-> FALSE]
              [] step = "abort" ->
                    [title |-> None, tried |-> i, caught |-> TRUE]
              [] OTHER -> TryQueries(q, i + 1, failAt)

get_book_title(conn, q, failAt) ==
    IF ~conn
    THEN [title |-> None, tried |-> 0, caught |-> FALSE]
    ELSE TryQueries(q, 1, failAt)

(***************************************************************************)
(* Row normalisation of get_highlights (lines 148-181)                     *)
(***************************************************************************)
\* a conversion that always reads the clock
CreatedAtClockOnly(stored, clock) == clock

\* lines 148-152; datetime values are whole seconds since 1970
CreatedAt(stored, clock) ==
    IF TruthyNum(stored) THEN stored[1] + MacEpochOffset ELSE clock

\* lines 154-156
RowText(row) ==
    IF row.representative_text # None /\ row.representative_text[1] # ""
    THEN <<row.text[1], "\n\nContext: ", row.representative_text[1]>>
    ELSE <<row.text[1]>>

\* lines 158-164
RowNote(row) ==
    LET note == IF row.note # None /\ row.note[1] # ""
                THEN <<row.note[1]>> ELSE << >>
        note_prefix == IF row.is_underline # 0 THEN "Underline" ELSE "Highlight"
    IN IF row.annotation_type # None
       THEN IF note # << >> THEN <<note_prefix, "\n">> \o note
            ELSE <<note_prefix>>
       ELSE note

\* a filter that also drops rows whose title is unknown
SkipRowUnresolvedToo(filter, title) ==
    /\ filter # << >>
    /\ ~(TruthyStr(title) /\ IsSubstring(Lower(filter), Lower(title[1])))

\* line 171: `continue` when this holds
SkipRow(filter, title) ==
    /\ filter # << >>
    /\ TruthyStr(title)
    /\ ~IsSubstring(Lower(filter), Lower(title[1]))

\* line 177
RowBookTitle(book_id, title) ==
    IF TruthyId(book_id)
    THEN IF TruthyStr(title) THEN title[1] ELSE <<"Book ID: ", book_id[1]>>
    ELSE <<"Unknown Book">>

\* lines 174-180
MakeHighlight(row, title, clock) ==
    [text |-> RowText(row),
     created_at |-> CreatedAt(row.created_at, clock),
     book_title |-> RowBookTitle(row.book_id, title),
     chapter |-> None,
     note |-> Some(RowNote(row))]

\* the primary query (lines 128-141): WHERE and ORDER BY over the table
PrimaryQuery(table) ==
    LET live == SelectSeq(table, LAMBDA r : r.text # None /\ r.deleted = 0)
        keyed == [i \in 1..Len(live) |->
                     [key |-> live[i].created_at, row |-> live[i]]]
        sorted == SortKeyedDesc(keyed)
    IN [i \in 1..Len(sorted) |-> sorted[i].row]

(***************************************************************************)
(* _get_book_info (lines 197-230)                                          *)
(***************************************************************************)
\* LOWER(ZTITLE) LIKE LOWER('%filter%') (line 212); the modelled filters hold
\* no LIKE wildcard
TitleLike(title, filter) == IsSubstring(Lower(filter), Lower(title))

\* f"{progress*100:.1f}": progress is stored here in units of 1/10000, the
\* result is in tenths of a percent, rounded half to even
ProgressTenths(p) ==
    LET q == p \div 10
        r == p % 10
    IN IF r > 5 \/ (r = 5 /\ q % 2 = 1) THEN q + 1 ELSE q

\* an f-string field: None prints as "None"
FormatOptional(o) == IF o = None THEN "None" ELSE o[1]

\* lines 221-227
BookInfoHighlight(row, clock) ==
    [text |-> IF row.progress # None
              THEN <<"Progress: ", ToString(ProgressTenths(row.progress[1])),
                     "%">>
              ELSE <<"No progress data">>,
     created_at |-> CreatedAt(row.last_opened, clock),
     book_title |-> row.book_title[1],
     chapter |-> IF row.genre # None /\ row.genre[1] # ""
                 THEN row.genre ELSE None,
     note |-> IF (row.author # None /\ row.author[1] # "")
                    \/ (row.description # None /\ row.description[1] # "")
              THEN Some(<<"Author: ", FormatOptional(row.author),
                          "\nDescription: ", FormatOptional(row.description)>>)
              ELSE None]

\* the rows the fallback query returns (lines 199-216)
BookInfoQuery(books, filter) ==
    LET titled == SelectSeq(books, LAMBDA r : r.book_title # None)
    IN IF filter # << >>
       THEN SelectSeq(titled, LAMBDA r : TitleLike(r.book_title[1], filter))
       ELSE LET keyed == [i \in 1..Len(titled) |->
                             [key |-> titled[i].last_opened, row |-> titled[i]]]
                sorted == SortKeyedDesc(keyed)
            IN [i \in 1..Len(sorted) |-> sorted[i].row]

\* the list _get_book_info returns when its query succeeds
get_book_info(books, filter, clock) ==
    LET rows == BookInfoQuery(books, filter)
    IN [i \in 1..Len(rows) |-> BookInfoHighlight(rows[i], clock)]

(***************************************************************************)
(* export_to_markdown (lines 242-254)                                      *)
(***************************************************************************)
\* strftime('%Y-%m-%d %H:%M:%S'): the calendar day (as a day count) and the
\* hour, minute and second of the day
FormatDate(d) ==
    <<ToString(d \div 86400), ToString((d % 86400) \div 3600),
      ToString((d % 3600) \div 60), ToString(d % 60)>>

\* a header test that misses the first record
NeedsHeaderNotFirst(title, current) == current # None /\ title # current[1]

\* line 246: current is None before the first record
NeedsHeader(title, current) == current = None \/ title # current[1]

\* the lines written for one record (lines 250-254)
RecordBlock(h) ==
    <<[kind |-> ">", body |-> h.text]>>
        \o (IF TruthyStr(h.note)
            THEN <<[kind |-> "Note", body |-> h.note[1]] >>
            ELSE << >>)
        \o <<[kind |-> "Chapter",
              body |-> IF h.chapter # None /\ h.chapter[1] # ""
                       THEN h.chapter ELSE <<"N/A">>],
             [kind |-> "Date", body |-> FormatDate(h.created_at)]>>

RECURSIVE WriteFrom(_, _, _)
WriteFrom(hs, i, current) ==
    IF i > Len(hs) THEN << >>
    ELSE LET h == hs[i]
             header == NeedsHeader(h.book_title, current)
         IN (IF header THEN <<[kind |-> "##", body |-> h.book_title]>>
             ELSE << >>)
                \o RecordBlock(h)
                \o WriteFrom(hs, i + 1, Some(h.book_title))

\* the document written for a highlight list
Markdown(hs) == WriteFrom(hs, 1, None)

(***************************************************************************)
(* main (lines 259-280): which except clause reports an exception          *)
(***************************************************************************)
\* a main() without the sqlite3.Error clause
MainReportNoSqlite(exc) ==
    CASE exc = "FileNotFoundError" -> "Error"
      [] OTHER -> "Unexpected error"

MainReport(exc) ==
    CASE exc = "FileNotFoundError" -> "Error"
      [] exc \in {"OperationalError", "DatabaseError"} -> "Database error"
      [] OTHER -> "Unexpected error"


\* a loop exit that returns the list it built even when it is empty
ReturnsPrimaryAlways(built) == TRUE

\* line 183: only a non-empty list is returned from inside the try
ReturnsPrimary(built) == built # << >>

\* a connect() without the existence test
ConnectNeverRaises(exists) == FALSE

\* line 74: connect() raises FileNotFoundError before opening anything
ConnectRaises(exists) == ~exists

\* a fallback that keeps the records the primary loop had built
FallbackKeepsPartial(partial, info) == partial \o info

\* line 195: get_highlights returns what _get_book_info returned; the list
\* built by the primary loop is not part of it
FallbackReturn(partial, info) == info

(***************************************************************************)
(* State                                                                   *)
(***************************************************************************)
VARIABLES
    \* the stores on disk (never written by the program)
    annExists,       \* the annotation store path exists
    annSchemaOK,     \* ZAEANNOTATION has the columns the primary query names
    annTable,        \* rows of ZAEANNOTATION, in rowid order
    libExists,       \* a library store was located and exists
    libQ,            \* per candidate query: what it yields for book id "b1"
    libBooks,        \* rows of ZBKLIBRARYASSET, in rowid order
    \* the environment
    now,             \* the wall clock, seconds since 1970
    outFile,         \* content of the output document (None: no such file)
    \* one run of main()
    runNo,           \* 1: first run of the program, 2: second run
    pc,
    book_title,      \* the filter typed at the prompt
    annotation_conn, \* self.annotation_conn is set
    library_conn,    \* self.library_conn is set
    cursor,          \* the rows the primary query yields, in order
    idx,             \* next row of cursor
    highlights,      \* the local list of get_highlights
    result,          \* what get_highlights returned
    opened,          \* export_to_markdown opened the output path
    reported,        \* what main() printed last
    diag,            \* the last diagnostic of get_highlights
    \* history
    primary,         \* "none", "running", "complete" or "failed" (line 191)
    rowLog,          \* per row iterated: what the loop body did with it
    bookInfoRet,     \* what the last _get_book_info call returned
    exc,             \* the exception that reached main(), and where from
    ioFault,         \* a database error was injected at run time
    prevOut          \* the document the first run wrote

storeVars == <<annExists, annSchemaOK, annTable, libExists, libQ, libBooks>>

runVars ==
    <<pc, book_title, annotation_conn, library_conn, cursor, idx, highlights,
      result, opened, reported, diag>>

histVars == <<primary, rowLog, bookInfoRet, exc, ioFault>>

vars == <<storeVars, now, outFile, runNo, runVars, histVars, prevOut>>

NoExc == [type |-> "none", site |-> "none"]

(***************************************************************************)
(* The stores explored.  Each family varies one part of the stores over    *)
(* its whole bounded domain and fixes the rest.                            *)
(***************************************************************************)
DefaultQ ==
    <<[kind |-> "operr", title |-> None],
      [kind |-> "row", title |-> Some(TitleDune)],
      [kind |-> "norow", title |-> None]>>

Store(ae, so, at, le, q, bs) ==
    [annExists |-> ae, annSchemaOK |-> so, annTable |-> at,
     libExists |-> le, libQ |-> q, libBooks |-> bs]

\* every annotation table, beside a fixed library store
AnnotationStores ==
    {Store(TRUE, TRUE, at, TRUE, DefaultQ,
           <<BookRow(Some(TitleFoundation), Some(1))>>) :
        at \in SeqsUpTo(AnnRowSet, MaxRows)}

\* every outcome of the three candidate queries, beside one annotation row
ResolverStores ==
    {Store(TRUE, TRUE, <<AnnRow(Some(1), Some("b1"))>>, le, q, << >>) :
        le \in BOOLEAN, q \in [1..Len(Queries) -> CandRes]}

\* every library table, beside an annotation store with nothing to extract
FallbackStores ==
    {Store(TRUE, so, << >>, TRUE, DefaultQ, bs) :
        so \in BOOLEAN, bs \in SeqsUpTo(BookRowSet, MaxBooks)}

\* tables with rows the WHERE clause of the primary query excludes
ExcludedRowStores ==
    {Store(TRUE, TRUE, <<r1, r2>>, TRUE, DefaultQ, << >>) :
        r1 \in {AnnDeletedRow, AnnNoTextRow, AnnRow(Some(1), None)},
        r2 \in {AnnDeletedRow, AnnNoTextRow}}

\* stores that are missing
MissingStores ==
    {Store(ae, so, at, le, DefaultQ, <<BookRow(Some(TitleDune), None)>>) :
        ae \in BOOLEAN, so \in BOOLEAN, le \in BOOLEAN,
        at \in {<< >>, <<AnnRow(None, Some("b1"))>>}}

Stores ==
    AnnotationStores \cup ResolverStores \cup FallbackStores
        \cup ExcludedRowStores \cup MissingStores

Init ==
    /\ \E s \in Stores :
          /\ annExists = s.annExists
          /\ annSchemaOK = s.annSchemaOK
          /\ annTable = s.annTable
          /\ libExists = s.libExists
          /\ libQ = s.libQ
          /\ libBooks = s.libBooks
    /\ now = NowBase
    /\ outFile = None
    /\ runNo = 1
    /\ pc = "start"
    /\ book_title = << >>
    /\ annotation_conn = FALSE
    /\ library_conn = FALSE
    /\ cursor = << >>
    /\ idx = 1
    /\ highlights = << >>
    /\ result = << >>
    /\ opened = FALSE
    /\ reported = "none"
    /\ diag = "none"
    /\ primary = "none"
    /\ rowLog = << >>
    /\ bookInfoRet = << >>
    /\ exc = NoExc
    /\ ioFault = FALSE
    /\ prevOut = None

(***************************************************************************)
(* Steps of a run                                                          *)
(***************************************************************************)
\* an exception leaves export_to_markdown and reaches main's except clauses
\* (lines 275-280); main then returns normally
Propagate(type, site) ==
    /\ pc' = "done"
    /\ exc' = [type |-> type, site |-> site]
    /\ reported' = MainReport(type)

Outcomes == {"ok", "OperationalError", "DatabaseError"}

\* lines 261-262: the prompt
MainInput ==
    /\ pc = "start"
    /\ \E f \in Filters : book_title' = f
    /\ pc' = "connect"
    /\ UNCHANGED <<storeVars, now, outFile, runNo, annotation_conn,
                   library_conn, cursor, idx, highlights, result, opened,
                   reported, diag, histVars, prevOut>>

\* lines 117-118 and connect() (72-81)
Connect ==
    /\ pc = "connect"
    /\ IF ConnectRaises(annExists)
       THEN /\ Propagate("FileNotFoundError", "connect")
            /\ UNCHANGED <<annotation_conn, library_conn>>
       ELSE /\ annotation_conn' = TRUE
            /\ library_conn' = libExists
            /\ pc' = "tables"
            /\ UNCHANGED <<exc, reported>>
    /\ UNCHANGED <<storeVars, now, outFile, runNo, book_title, cursor, idx,
                   highlights, result, opened, diag, primary, rowLog,
                   bookInfoRet, ioFault, prevOut>>

\* lines 120-126: the table listing, outside any try
ListTables ==
    /\ pc = "tables"
    /\ \E o \in Outcomes :
          IF o = "ok"
          THEN /\ pc' = "primary"
               /\ UNCHANGED <<exc, reported, ioFault>>
          ELSE /\ Propagate(o, "tables")
               /\ ioFault' = TRUE
    /\ UNCHANGED <<storeVars, now, outFile, runNo, book_title,
                   annotation_conn, library_conn, cursor, idx, highlights,
                   result, opened, diag, primary, rowLog, bookInfoRet,
                   prevOut>>

\* line 144: executing the primary query
PrimaryExecute ==
    /\ pc = "primary"
    /\ \E o \in (IF annSchemaOK THEN Outcomes ELSE {"OperationalError"}) :
          /\ ioFault' = (ioFault \/ (annSchemaOK /\ o # "ok"))
          /\ CASE o = "ok" ->
                    /\ cursor' = PrimaryQuery(annTable)
                    /\ idx' = 1
                    /\ highlights' = << >>
                    /\ primary' = "running"
                    /\ pc' = "iter"
                    /\ UNCHANGED <<exc, reported, diag>>
               [] o = "OperationalError" ->
                    \* lines 191-194
                    /\ primary' = "failed"
                    /\ diag' = "Query failed"
                    /\ pc' = "fallback"
                    /\ UNCHANGED <<cursor, idx, highlights, exc, reported>>
               [] OTHER ->
                    /\ Propagate(o, "primary")
                    /\ UNCHANGED <<cursor, idx, highlights, primary, diag>>
    /\ UNCHANGED <<storeVars, now, outFile, runNo, book_title,
                   annotation_conn, library_conn, result, opened, rowLog,
                   bookInfoRet, prevOut>>

\* lines 147-181: one pass of the loop over the cursor
PrimaryRow ==
    /\ pc = "iter"
    /\ idx <= Len(cursor)
    /\ LET row == cursor[idx]
           resolve == TruthyId(row.book_id)
           \* failAt: the candidate query, among those the call executes,
           \* at which a database error other than OperationalError strikes
       IN \E o \in Outcomes,
             failAt \in (IF resolve /\ library_conn
                         THEN 0..get_book_title(TRUE, libQ, 0).tried
                         ELSE {0}) :
             CASE o = "ok" ->
                    LET res == IF resolve
                               THEN get_book_title(library_conn, libQ, failAt)
                               ELSE [title |-> None, tried |-> 0,
                                     caught |-> FALSE]
                        skip == SkipRow(book_title, res.title)
                        h == MakeHighlight(row, res.title, now)
                    IN /\ highlights' = IF skip THEN highlights
                                        ELSE Append(highlights, h)
                       /\ rowLog' = Append(rowLog,
                              [row |-> row, resolve |-> resolve, res |-> res,
                               fault |-> failAt, kept |-> ~skip,
                               created_at |-> h.created_at])
                       /\ idx' = idx + 1
                       /\ ioFault' = (ioFault \/ res.caught)
                       /\ UNCHANGED <<pc, primary, diag, exc, reported>>
               [] o = "OperationalError" ->
                    /\ primary' = "failed"
                    /\ diag' = "Query failed"
                    /\ pc' = "fallback"
                    /\ ioFault' = TRUE
                    /\ UNCHANGED <<highlights, rowLog, idx, exc, reported>>
               [] OTHER ->
                    /\ Propagate(o, "iter")
                    /\ ioFault' = TRUE
                    /\ UNCHANGED <<highlights, rowLog, idx, primary, diag>>
    /\ UNCHANGED <<storeVars, now, outFile, runNo, book_title,
                   annotation_conn, library_conn, cursor, result, opened,
                   bookInfoRet, prevOut>>

\* lines 183-189: the cursor is exhausted; an empty list leaves the try and
\* reaches line 194
PrimaryEnd ==
    /\ pc = "iter"
    /\ idx > Len(cursor)
    /\ primary' = "complete"
    /\ IF ReturnsPrimary(highlights)
       THEN /\ diag' = "Successfully extracted"
            /\ result' = highlights
            /\ pc' = "write"
       ELSE /\ diag' = IF book_title # << >>
                       THEN "No highlights found for book"
                       ELSE "No highlights found"
            /\ pc' = "fallback"
            /\ UNCHANGED result
    /\ UNCHANGED <<storeVars, now, outFile, runNo, book_title,
                   annotation_conn, library_conn, cursor, idx, highlights,
                   opened, reported, rowLog, bookInfoRet, exc, ioFault,
                   prevOut>>

\* lines 194-195 and _get_book_info (197-230)
BookInfo ==
    /\ pc = "fallback"
    /\ IF ~library_conn
       THEN \* self.library_conn is None: None.execute raises
            /\ Propagate("AttributeError", "fallback")
            /\ UNCHANGED <<result, bookInfoRet, ioFault>>
       ELSE \E o \in Outcomes :
               IF o = "ok"
               THEN LET info == get_book_info(libBooks, book_title, now)
                    IN /\ bookInfoRet' = info
                       /\ result' = FallbackReturn(highlights, info)
                       /\ pc' = "write"
                       /\ UNCHANGED <<exc, reported, ioFault>>
               ELSE /\ Propagate(o, "fallback")
                    /\ ioFault' = TRUE
                    /\ UNCHANGED <<result, bookInfoRet>>
    /\ UNCHANGED <<storeVars, now, outFile, runNo, book_title,
                   annotation_conn, library_conn, cursor, idx, highlights,
                   opened, diag, primary, rowLog, prevOut>>

\* lines 242-254, then line 273
Export ==
    /\ pc = "write"
    /\ opened' = TRUE
    /\ outFile' = Some(Markdown(result))
    /\ reported' = "exported"
    /\ pc' = "done"
    /\ UNCHANGED <<storeVars, now, runNo, book_title, annotation_conn,
                   library_conn, cursor, idx, highlights, result, diag,
                   histVars, prevOut>>

\* after an export with no filter that met no injected error, the program is
\* run again, with the same answer at the prompt, against the same stores: a
\* new process, a new extractor (lines 17-20)
Rerun ==
    /\ pc = "done"
    /\ runNo = 1
    /\ reported = "exported"
    /\ book_title = << >>
    /\ ~ioFault
    /\ runNo' = 2
    /\ prevOut' = IF opened THEN outFile ELSE None
    /\ pc' = "connect"
    /\ annotation_conn' = FALSE
    /\ library_conn' = FALSE
    /\ cursor' = << >>
    /\ idx' = 1
    /\ highlights' = << >>
    /\ result' = << >>
    /\ opened' = FALSE
    /\ reported' = "none"
    /\ diag' = "none"
    /\ primary' = "none"
    /\ rowLog' = << >>
    /\ bookInfoRet' = << >>
    /\ exc' = NoExc
    /\ ioFault' = FALSE
    /\ UNCHANGED <<storeVars, now, outFile, book_title>>

\* time passes
Tick ==
    /\ now < NowBase + MaxTicks
    /\ now' = now + 1
    /\ UNCHANGED <<storeVars, outFile, runNo, runVars, histVars, prevOut>>

Next ==
    \/ MainInput
    \/ Connect
    \/ ListTables
    \/ PrimaryExecute
    \/ PrimaryRow
    \/ PrimaryEnd
    \/ BookInfo
    \/ Export
    \/ Tick

\* one run of the program
Spec == Init /\ [][Next]_vars

NextTwice ==
    \/ MainInput
    \/ Connect
    \/ ListTables
    \/ PrimaryExecute
    \/ PrimaryRow
    \/ PrimaryEnd
    \/ BookInfo
    \/ Export
    \/ Tick
    \/ Rerun

\* two runs of the program against the same stores
SpecTwice == Init /\ [][NextTwice]_vars

(***************************************************************************)
(* The exporter on its own: export_to_markdown from the point where        *)
(* get_highlights has returned, for every bounded highlight list           *)
(***************************************************************************)
MaxRecords == 4

ExportHighlights ==
    {[text |-> <<"quote">>, created_at |-> MacEpochOffset + 1,
      book_title |-> t, chapter |-> None, note |-> n] :
        t \in {TitleDune, <<"Unknown Book">>},
        n \in {Some(<< >>), Some(<<"Highlight">>)}}

InitExport ==
    /\ annExists = TRUE
    /\ annSchemaOK = TRUE
    /\ annTable = << >>
    /\ libExists = TRUE
    /\ libQ = DefaultQ
    /\ libBooks = << >>
    /\ now = NowBase
    /\ outFile = None
    /\ runNo = 1
    /\ pc = "write"
    /\ book_title = << >>
    /\ annotation_conn = TRUE
    /\ library_conn = TRUE
    /\ cursor = << >>
    /\ idx = 1
    /\ highlights = << >>
    /\ result \in SeqsUpTo(ExportHighlights, MaxRecords)
    /\ opened = FALSE
    /\ reported = "none"
    /\ diag = "none"
    /\ primary = "none"
    /\ rowLog = << >>
    /\ bookInfoRet = << >>
    /\ exc = NoExc
    /\ ioFault = FALSE
    /\ prevOut = None

NextExport ==
    \/ Export
    \/ Tick

SpecExport == InitExport /\ [][NextExport]_vars


(***************************************************************************)
(* Properties                                                              *)
(***************************************************************************)
\* title contains filter, compared character by character without case
MatchesIgnoringCase(title, filter) ==
    \E k \in 0..Len(title) :
        /\ k + Len(filter) <= Len(title)
        /\ \A j \in 1..Len(filter) :
              LowerChar(title[k + j]) = LowerChar(filter[j])

ResolvedTitle(e) == e.res.title # None /\ e.res.title[1] # << >>

KeptRows == {i \in 1..Len(rowLog) : rowLog[i].kept}

\* C1: with a non-empty filter, a row of the primary loop is dropped if and
\* only if get_book_title gave it a non-empty title that does not contain
\* the filter (ignoring case); rows without a resolved title, and rows whose
\* title contains the filter, are appended to the list.
C1_FilterDropsOnlyKnownNonMatching ==
    book_title # << >> =>
        /\ \A i \in 1..Len(rowLog) :
              LET e == rowLog[i]
              IN ~e.kept <=>
                    (ResolvedTitle(e)
                       /\ ~MatchesIgnoringCase(e.res.title[1], book_title))
        /\ Len(highlights) = Cardinality(KeptRows)

C1_Witness ==
    /\ book_title # << >>
    /\ \E i, j \in 1..Len(rowLog) :
          /\ ~rowLog[i].kept
          /\ rowLog[j].kept /\ ~ResolvedTitle(rowLog[j])
    /\ Len(highlights) = 1

\* C2: when the primary query raised OperationalError (at execute or while
\* iterating), what get_highlights returns is exactly what the call
\* _get_book_info(filter) returned: the fallback records for the same filter
\* and nothing built by the primary loop.
C2_FallbackOnStructuralError ==
    (primary = "failed" /\ pc \in {"write", "done"} /\ exc = NoExc) =>
        /\ result = bookInfoRet
        /\ \E t \in NowBase..now :
              result = get_book_info(libBooks, book_title, t)

C2_Witness ==
    /\ primary = "failed"
    /\ pc = "done"
    /\ exc = NoExc
    /\ highlights # << >>
    /\ result # << >>

\* C3 as stated: when the primary query succeeds and yields no record, what
\* get_highlights returns is that empty list: the fallback extractor
\* contributes nothing.
C3_EmptyPrimaryReturnsEmpty ==
    (primary = "complete" /\ highlights = << >> /\ pc \in {"write", "done"}
        /\ exc = NoExc) => result = << >>

\* C3 (amended): a primary query that succeeds with no record only selects
\* the diagnostic and then delegates to _get_book_info like a structural
\* failure does: get_highlights returns the fallback records for the same
\* filter, or raises when no library store is connected; a non-empty primary
\* list is returned as built.
C3_EmptyPrimaryDelegatesToFallback ==
    /\ pc = "fallback" =>
          \/ primary = "failed"
          \/ /\ primary = "complete"
             /\ highlights = << >>
             /\ diag = IF book_title # << >>
                       THEN "No highlights found for book"
                       ELSE "No highlights found"
    /\ (primary = "complete" /\ pc \in {"write", "done"} /\ exc = NoExc) =>
          IF highlights # << >>
          THEN result = highlights
          ELSE \E t \in NowBase..now :
                  result = get_book_info(libBooks, book_title, t)
    /\ (primary = "complete" /\ highlights = << >> /\ pc = "done"
          /\ ~library_conn) =>
          exc = [type |-> "AttributeError", site |-> "fallback"]

\* every row was removed by the filter and the fallback found a book
C3_Witness ==
    /\ primary = "complete"
    /\ rowLog # << >>
    /\ highlights = << >>
    /\ pc = "done"
    /\ result # << >>

\* C4: every row of the primary query with a non-null stored creation
\* timestamp t (zero and negative included) gets created_at = t + 978307200.
C4_NonNullTimestampConverted ==
    \A i \in 1..Len(rowLog) :
        rowLog[i].row.created_at # None =>
            rowLog[i].created_at = rowLog[i].row.created_at[1] + MacEpochOffset

\* C5: a list returned from the primary path is sorted by created_at,
\* newest first.
C5_PrimarySortedDescending ==
    (primary = "complete" /\ highlights # << >> /\ pc \in {"write", "done"}) =>
        \A i, j \in 1..Len(result) :
            i < j => result[i].created_at >= result[j].created_at

\* positions of the blockquote lines of a document, in order
QuoteLines(doc) ==
    SelectSeq([i \in 1..Len(doc) |-> i], LAMBDA i : doc[i].kind = ">")

StartsRun(hs, i) == i = 1 \/ hs[i].book_title # hs[i - 1].book_title

\* C6: the document holds one record block per highlight, in order, and a
\* section header right before the block of exactly those records whose
\* title differs from the previous record's (and before the first): as many
\* headers as maximal runs of equal adjacent titles.
C6_HeaderPerRunOfTitles ==
    opened =>
        LET doc == outFile[1]
            q == QuoteLines(doc)
        IN /\ Len(q) = Len(result)
           /\ \A i \in 1..Len(q) :
                 /\ doc[q[i]].body = result[i].text
                 /\ StartsRun(result, i) <=>
                       /\ q[i] > 1
                       /\ doc[q[i] - 1].kind = "##"
                       /\ doc[q[i] - 1].body = result[i].book_title
           /\ Cardinality({k \in 1..Len(doc) : doc[k].kind = "##"})
                 = Cardinality({i \in 1..Len(result) : StartsRun(result, i)})

\* titles A, A, B, A: three sections
C6_Witness ==
    /\ opened
    /\ Len(result) = 4
    /\ result[1].book_title = result[2].book_title
    /\ result[3].book_title # result[2].book_title
    /\ result[4].book_title = result[1].book_title
    /\ Cardinality({k \in 1..Len(outFile[1]) : outFile[1][k].kind = "##"}) = 3

\* both runs exported with no filter and met no injected error
TwoCleanExports ==
    /\ runNo = 2
    /\ pc = "done"
    /\ reported = "exported"
    /\ ~ioFault
    /\ book_title = << >>
    /\ prevOut # None

\* C7 as stated: two exports with no filter against the same stores write
\* the same document, whatever the stores hold.
C7_ExportIdempotent == TwoCleanExports => outFile = prevOut

\* no exported record was dated by the clock
StoredDatesOnly ==
    IF primary = "complete" /\ highlights # << >>
    THEN \A i \in KeptRows : TruthyNum(rowLog[i].row.created_at)
    ELSE LET rows == BookInfoQuery(libBooks, book_title)
         IN \A i \in 1..Len(rows) : TruthyNum(rows[i].last_opened)

\* C7 (amended): the two documents agree line for line except possibly in
\* Date lines, and they are identical when every exported record carries a
\* stored timestamp that the conversion uses.
C7_IdempotentUpToClockDates ==
    TwoCleanExports =>
        LET d1 == prevOut[1]
            d2 == outFile[1]
        IN /\ Len(d1) = Len(d2)
           /\ \A k \in 1..Len(d1) :
                 /\ d1[k].kind = d2[k].kind
                 /\ d1[k].kind # "Date" => d1[k].body = d2[k].body
           /\ StoredDatesOnly => d1 = d2

C7_Witness ==
    /\ TwoCleanExports
    /\ StoredDatesOnly
    /\ Len(outFile[1]) > 4
    /\ now > NowBase

\* C8: when the annotation store path does not exist, connect() raises
\* before any connection is opened, the output path is never opened, and
\* main() reports the error and returns.
C8_MissingStoreAborts ==
    ~annExists =>
        /\ ~annotation_conn
        /\ ~library_conn
        /\ ~opened
        /\ outFile = None
        /\ pc \notin {"tables", "primary", "iter", "fallback", "write"}
        /\ pc = "done" =>
              /\ exc = [type |-> "FileNotFoundError", site |-> "connect"]
              /\ reported = "Error"

C8_Witness == ~annExists /\ pc = "done" /\ reported = "Error"

\* rows for which get_book_title ran its queries
ResolverCalls == {i \in 1..Len(rowLog) : rowLog[i].resolve /\ library_conn}

NonEmptyCandidates ==
    {i \in 1..Len(Queries) : libQ[i].kind = "row" /\ TruthyStr(libQ[i].title)}

RowCandidates == {i \in 1..Len(Queries) : libQ[i].kind = "row"}

Least(S) == CHOOSE i \in S : \A j \in S : i <= j

\* C9 as stated: the resolver returns the first non-empty title among the
\* candidates, and none only if no candidate yields a non-empty title.
C9_FirstNonEmptyTitle ==
    \A i \in ResolverCalls :
        ~rowLog[i].res.caught =>
            rowLog[i].res.title =
                IF NonEmptyCandidates = {} THEN None
                ELSE libQ[Least(NonEmptyCandidates)].title

\* C9 (amended): the resolver skips candidates that fail structurally or
\* fetch no row, stops at the first candidate that fetches a row and returns
\* that row's title, empty or null as it may be; a database error of another
\* kind ends the call with none.
C9_FirstRowTitle ==
    \A i \in ResolverCalls :
        LET r == rowLog[i].res
        IN IF rowLog[i].fault # 0
           THEN /\ r.caught
                /\ r.title = None
                /\ r.tried = rowLog[i].fault
           ELSE IF RowCandidates = {}
           THEN r.title = None /\ r.tried = Len(Queries) /\ ~r.caught
           ELSE /\ r.tried = Least(RowCandidates)
                /\ r.title = libQ[r.tried].title
                /\ ~r.caught

C9_Witness ==
    /\ libQ[1].kind = "operr"
    /\ libQ[2].kind = "norow"
    /\ libQ[3].kind = "row"
    /\ \E i \in ResolverCalls :
          /\ rowLog[i].res.tried = 3
          /\ rowLog[i].res.title = Some(TitleDune)

\* C10 as stated: a database error that is not an OperationalError reaches
\* the caller only from _get_book_info.
C10_OnlyFallbackPropagates ==
    exc.type = "DatabaseError" => exc.site = "fallback"

\* C10 (amended): such an error is swallowed in get_book_title only, where
\* the row is treated as having no title and kept; from the table listing,
\* the primary query, its iteration or _get_book_info it reaches main(),
\* which reports a database error and returns without writing the document.
C10_ResolverSwallowsOthersReachMain ==
    /\ \A i \in 1..Len(rowLog) :
          rowLog[i].res.caught =>
              /\ rowLog[i].res.title = None
              /\ rowLog[i].kept
    /\ exc.type = "DatabaseError" =>
          /\ exc.site \in {"tables", "primary", "iter", "fallback"}
          /\ pc = "done"
          /\ reported = "Database error"
          /\ ~opened
          /\ outFile = None

C10_Witness ==
    /\ exc = [type |-> "DatabaseError", site |-> "iter"]
    /\ \E i \in 1..Len(rowLog) : rowLog[i].res.caught

=============================================================================
